---------------------------- MODULE Spec2Model ----------------------------
(***************************************************************************)
(* To Do List Musei Bologna: the task store of src/array-script.js (array  *)
(* variant, variables tasks / nextId) and of src/unnamed/part_000 (Map     *)
(* variant, variables tasksMap / nextIdMap).  Both scripts are driven by   *)
(* the same user gestures, so every action applies one gesture, with the   *)
(* same inputs and the same dialog answers, to both stores.                *)
(*                                                                         *)
(* Strings are sequences of one-character strings, so that trim() and the  *)
(* date regular expression are computed rather than assumed.               *)
(* Task.createdAt (a wall-clock timestamp nobody reads) is not modelled.   *)
(* Of render() the model has the query (the filter and the sort, with the  *)
(* list of tasks they yield); the markup written from that list is not     *)
(* modelled.  A change of a filter control runs the query (action Query);  *)
(* the calls of render() at the end of the other handlers rewrite the      *)
(* markup and change no variable of the model.                             *)
(***************************************************************************)
EXTENDS Integers, Sequences, FiniteSets, TLC

(***************************************************************************)
(* Bounds of the exploration.                                              *)
(***************************************************************************)
\* number of user gestures in one session
MaxOps == 4
\* number of user gestures in one session in which the user also changes
\* the filter controls
MaxQueryOps == 2
\* number of calls in one session in which init() is called again
MaxInitOps == 2
\* the id-based gestures (toggle, remove, edit) aim at ids 1..MaxTarget and
\* at the first id handed out after the seed
MaxTarget == 1

(***************************************************************************)
(* Strings.                                                                *)
(***************************************************************************)
\* result of a cancelled prompt()
null == <<"null">>

WhiteSpace == {" ", "\t", "\n"}

Digit == {"0", "1", "2", "3", "4", "5", "6", "7", "8", "9"}

\* JavaScript truthiness of a string-or-null value
Truthy(s) == s # null /\ s # <<>>

RECURSIVE trimStart(_)
trimStart(s) ==
    IF s # <<>> /\ Head(s) \in WhiteSpace THEN trimStart(Tail(s)) ELSE s

RECURSIVE trimEnd(_)
trimEnd(s) ==
    IF s # <<>> /\ s[Len(s)] \in WhiteSpace
    THEN trimEnd(SubSeq(s, 1, Len(s) - 1))
    ELSE s

\* String.prototype.trim
trim(s) == trimEnd(trimStart(s))

\* dateRegexTest, also rejecting a month above 12 or a day above 31
dateRegexTest_Calendar(s) ==
    /\ Len(s) = 10
    /\ \A i \in {1, 2, 3, 4, 6, 7, 9, 10} : s[i] \in Digit
    /\ s[5] = "-"
    /\ s[8] = "-"
    /\ s[6] \in {"0", "1"}
    /\ (s[6] = "1" => s[7] \in {"0", "1", "2"})
    /\ s[9] \in {"0", "1", "2", "3"}
    /\ (s[9] = "3" => s[10] \in {"0", "1"})

\* /^\d{4}-\d{2}-\d{2}$/.test(s)
dateRegexTest(s) ==
    /\ Len(s) = 10
    /\ \A i \in {1, 2, 3, 4, 6, 7, 9, 10} : s[i] \in Digit
    /\ s[5] = "-"
    /\ s[8] = "-"

(***************************************************************************)
(* Records.                                                                *)
(***************************************************************************)
Task(id, name, date, completed) ==
    [id |-> id, name |-> name, date |-> date, completed |-> completed]

\* "no task": what find() / get() return on a miss
NoTask == Task(0, <<>>, <<>>, FALSE)

Museum(name, date, completed) ==
    [name |-> name, date |-> date, completed |-> completed]

D(y, m, d) == y \o <<"-">> \o m \o <<"-">> \o d

Y2024 == <<"2", "0", "2", "4">>
Y2025 == <<"2", "0", "2", "5">>

\* the eight seed names, the same in both scripts
seedNames == <<
    <<"M","u","s","e","o"," ","C","i","v","i","c","o"," ","A","r","c","h","e","o","l","o","g","i","c","o">>,
    <<"P","i","n","a","c","o","t","e","c","a"," ","N","a","z","i","o","n","a","l","e"," ","d","i"," ","B","o","l","o","g","n","a">>,
    <<"M","u","s","e","o"," ","d","e","l","l","a"," ","S","t","o","r","i","a"," ","d","i"," ","B","o","l","o","g","n","a">>,
    <<"M","A","M","b","o"," ","-"," ","M","u","s","e","o"," ","d","'","A","r","t","e"," ","M","o","d","e","r","n","a"," ","d","i"," ","B","o","l","o","g","n","a">>,
    <<"M","u","s","e","o"," ","I","n","t","e","r","n","a","z","i","o","n","a","l","e"," ","d","e","l","l","a"," ","M","u","s","i","c","a">>,
    <<"M","u","s","e","o"," ","C","i","v","i","c","o"," ","M","e","d","i","e","v","a","l","e">>,
    <<"M","u","s","e","o"," ","d","i"," ","P","a","l","a","z","z","o"," ","P","o","g","g","i">>,
    <<"M","u","s","e","o"," ","d","e","l","l","a"," ","T","a","p","p","e","z","z","e","r","i","a">> >>

\* month and day of the eight seed dates, the same in both scripts
seedMonthDay == <<
    << <<"0","2">>, <<"1","5">> >>,
    << <<"0","2">>, <<"2","0">> >>,
    << <<"0","3">>, <<"0","1">> >>,
    << <<"0","3">>, <<"1","0">> >>,
    << <<"0","3">>, <<"1","5">> >>,
    << <<"0","3">>, <<"2","0">> >>,
    << <<"0","4">>, <<"0","1">> >>,
    << <<"0","4">>, <<"0","5">> >> >>

\* the completed flags of the eight seed entries, the same in both scripts
seedCompleted == <<FALSE, TRUE, FALSE, FALSE, TRUE, FALSE, FALSE, FALSE>>

\* initialMuseums of the array script (dates in 2024)
initialMuseums ==
    [i \in 1..8 |->
        Museum(seedNames[i],
               D(Y2024, seedMonthDay[i][1], seedMonthDay[i][2]),
               seedCompleted[i])]

\* initialMuseums of the Map script (dates in 2025)
initialMuseumsMap ==
    [i \in 1..8 |->
        Museum(seedNames[i],
               D(Y2025, seedMonthDay[i][1], seedMonthDay[i][2]),
               seedCompleted[i])]

(***************************************************************************)
(* What one call of a handler does: the store it leaves, and what the user *)
(* saw of it.                                                              *)
(*   res      "ok", "declined" (confirm() answered no), or the error:      *)
(*            "EmptyName"         alert('Inserisci il nome del museo!')    *)
(*            "MissingDate"       alert('Seleziona una data!')             *)
(*            "InvalidDateFormat" alert('Formato data non valido! ...')    *)
(*            "EmptyStore"        alert('Non ci sono musei nella lista!'), *)
(*                                alert('La lista e gia vuota!')           *)
(*            "NothingToClear"    alert('Non ci sono musei visitati ...')  *)
(*            "NotFound"          silent return on a lookup miss           *)
(*   asked    confirm() was called                                         *)
(*   prompts  number of prompt() calls                                     *)
(*   newId    id of the Task constructed by the call, 0 if none            *)
(*   old      the looked-up task as it was before the call, or NoTask      *)
(*   stats    updateStats() was called                                     *)
(***************************************************************************)
Result(ts, nid, res, asked, prompts, newId, old, st) ==
    [tasks |-> ts, nextId |-> nid, res |-> res, asked |-> asked,
     prompts |-> prompts, newId |-> newId, old |-> old, stats |-> st]

Errors == {"EmptyName", "MissingDate", "InvalidDateFormat", "NotFound",
           "EmptyStore", "NothingToClear"}

Max(S) == CHOOSE x \in S : \A y \in S : y <= x

(***************************************************************************)
(* Array variant: src/array-script.js.  The store is the sequence tasks.   *)
(***************************************************************************)
Ids(ts) == {ts[i].id : i \in 1..Len(ts)}

\* tasks.find(t => t.id === taskId): index of the first match, 0 if none
find(ts, taskId) ==
    IF \E i \in 1..Len(ts) : ts[i].id = taskId
    THEN CHOOSE i \in 1..Len(ts) :
            /\ ts[i].id = taskId
            /\ \A j \in 1..(i - 1) : ts[j].id # taskId
    ELSE 0

\* init, leaving completed to the Task constructor's default
init_DefaultCompleted ==
    [i \in 1..Len(initialMuseums) |->
        Task(i, initialMuseums[i].name, initialMuseums[i].date, FALSE)]

init ==
    [i \in 1..Len(initialMuseums) |->
        Task(i, initialMuseums[i].name, initialMuseums[i].date,
             initialMuseums[i].completed)]

\* updateNextId, forgetting the + 1
updateNextId_Max(ts) ==
    IF Len(ts) = 0 THEN 1 ELSE Max(Ids(ts))

updateNextId(ts) ==
    IF Len(ts) = 0 THEN 1 ELSE Max(Ids(ts)) + 1

updateStats(ts) ==
    LET totalCount == Len(ts)
        completedCount == Len(SelectSeq(ts, LAMBDA t : t.completed))
    IN  [totalCount |-> totalCount,
         completedCount |-> completedCount,
         pendingCount |-> totalCount - completedCount]

\* addTask, forgetting window.nextId++
addTask_NoIncrement(ts, nid, name, date) ==
    IF trim(name) = <<>>
    THEN Result(ts, nid, "EmptyName", FALSE, 0, 0, NoTask, FALSE)
    ELSE IF ~Truthy(date)
    THEN Result(ts, nid, "MissingDate", FALSE, 0, 0, NoTask, FALSE)
    ELSE LET newTask == Task(nid, trim(name), date, FALSE)
         IN  Result(Append(ts, newTask), nid, "ok", FALSE, 0,
                    newTask.id, NoTask, TRUE)

\* addTask, storing name instead of name.trim()
addTask_NoTrim(ts, nid, name, date) ==
    IF trim(name) = <<>>
    THEN Result(ts, nid, "EmptyName", FALSE, 0, 0, NoTask, FALSE)
    ELSE IF ~Truthy(date)
    THEN Result(ts, nid, "MissingDate", FALSE, 0, 0, NoTask, FALSE)
    ELSE LET newTask == Task(nid, name, date, FALSE)
         IN  Result(Append(ts, newTask), nid + 1, "ok", FALSE, 0,
                    newTask.id, NoTask, TRUE)

\* addTask, pushing the task before the date is validated
addTask_PushFirst(ts, nid, name, date) ==
    IF trim(name) = <<>>
    THEN Result(ts, nid, "EmptyName", FALSE, 0, 0, NoTask, FALSE)
    ELSE LET newTask == Task(nid, trim(name), date, FALSE)
         IN  IF ~Truthy(date)
             THEN Result(Append(ts, newTask), nid, "MissingDate", FALSE, 0,
                         0, NoTask, FALSE)
             ELSE Result(Append(ts, newTask), nid + 1, "ok", FALSE, 0,
                         newTask.id, NoTask, TRUE)

\* addTask, validating the date before the name
addTask_DateFirst(ts, nid, name, date) ==
    IF ~Truthy(date)
    THEN Result(ts, nid, "MissingDate", FALSE, 0, 0, NoTask, FALSE)
    ELSE IF trim(name) = <<>>
    THEN Result(ts, nid, "EmptyName", FALSE, 0, 0, NoTask, FALSE)
    ELSE LET newTask == Task(nid, trim(name), date, FALSE)
         IN  Result(Append(ts, newTask), nid + 1, "ok", FALSE, 0,
                    newTask.id, NoTask, TRUE)

addTask(ts, nid, name, date) ==
    IF trim(name) = <<>>
    THEN Result(ts, nid, "EmptyName", FALSE, 0, 0, NoTask, FALSE)
    ELSE IF ~Truthy(date)
    THEN Result(ts, nid, "MissingDate", FALSE, 0, 0, NoTask, FALSE)
    ELSE LET newTask == Task(nid, trim(name), date, FALSE)
         IN  Result(Append(ts, newTask), nid + 1, "ok", FALSE, 0,
                    newTask.id, NoTask, TRUE)

\* toggleDone, setting task.completed = true
toggleDone_SetTrue(ts, nid, taskId) ==
    LET i == find(ts, taskId)
    IN  IF i # 0
        THEN Result([ts EXCEPT ![i].completed = TRUE], nid,
                    "ok", FALSE, 0, 0, ts[i], TRUE)
        ELSE Result(ts, nid, "NotFound", FALSE, 0, 0, NoTask, FALSE)

toggleDone(ts, nid, taskId) ==
    LET i == find(ts, taskId)
    IN  IF i # 0
        THEN Result([ts EXCEPT ![i].completed = ~ts[i].completed], nid,
                    "ok", FALSE, 0, 0, ts[i], TRUE)
        ELSE Result(ts, nid, "NotFound", FALSE, 0, 0, NoTask, FALSE)

\* removeTask, recomputing window.nextId with updateNextId() afterwards
removeTask_Renumber(ts, nid, taskId, ok) ==
    LET i == find(ts, taskId)
        old == IF i # 0 THEN ts[i] ELSE NoTask
    IN  IF ok
        THEN Result(SelectSeq(ts, LAMBDA t : t.id # taskId),
                    updateNextId(SelectSeq(ts, LAMBDA t : t.id # taskId)),
                    "ok", TRUE, 0, 0, old, TRUE)
        ELSE Result(ts, nid, "declined", TRUE, 0, 0, old, FALSE)

\* removeTask, deleting the element at the place taskId of the array
removeTask_Splice(ts, nid, taskId, ok) ==
    LET i == find(ts, taskId)
        old == IF i # 0 THEN ts[i] ELSE NoTask
    IN  IF ok
        THEN Result(SubSeq(ts, 1, taskId - 1) \o SubSeq(ts, taskId + 1, Len(ts)),
                    nid, "ok", TRUE, 0, 0, old, TRUE)
        ELSE Result(ts, nid, "declined", TRUE, 0, 0, old, FALSE)

removeTask(ts, nid, taskId, ok) ==
    LET i == find(ts, taskId)
        old == IF i # 0 THEN ts[i] ELSE NoTask
    IN  IF ok
        THEN Result(SelectSeq(ts, LAMBDA t : t.id # taskId), nid,
                    "ok", TRUE, 0, 0, old, TRUE)
        ELSE Result(ts, nid, "declined", TRUE, 0, 0, old, FALSE)

\* editTask, applying the new name only when the new date is accepted too
editTask_Atomic(ts, nid, taskId, newName, newDate) ==
    LET i == find(ts, taskId)
    IN  IF i = 0
        THEN Result(ts, nid, "NotFound", FALSE, 0, 0, NoTask, FALSE)
        ELSE
        LET task == ts[i]
            nameOk == /\ Truthy(newName)
                      /\ trim(newName) # <<>>
                      /\ trim(newName) # task.name
            task1 == IF nameOk THEN [task EXCEPT !.name = trim(newName)]
                               ELSE task
            dateNew == Truthy(newDate) /\ newDate # task1.date
            dateOk == dateNew /\ dateRegexTest(newDate)
            task2 == IF dateOk THEN [task1 EXCEPT !.date = newDate]
                               ELSE task1
        IN  IF dateNew /\ ~dateOk
            THEN Result(ts, nid, "InvalidDateFormat", FALSE, 2, 0, task,
                        FALSE)
            ELSE Result([ts EXCEPT ![i] = task2], nid, "ok", FALSE, 2, 0,
                        task, FALSE)

\* editTask, asking for the name and the date before it looks the task up
editTask_PromptFirst(ts, nid, taskId, newName, newDate) ==
    LET i == find(ts, taskId)
    IN  IF i = 0
        THEN Result(ts, nid, "NotFound", FALSE, 2, 0, NoTask, FALSE)
        ELSE
        LET task == ts[i]
            nameOk == /\ Truthy(newName)
                      /\ trim(newName) # <<>>
                      /\ trim(newName) # task.name
            task1 == IF nameOk THEN [task EXCEPT !.name = trim(newName)]
                               ELSE task
            dateNew == Truthy(newDate) /\ newDate # task1.date
            dateOk == dateNew /\ dateRegexTest(newDate)
            task2 == IF dateOk THEN [task1 EXCEPT !.date = newDate]
                               ELSE task1
        IN  Result([ts EXCEPT ![i] = task2], nid,
                   IF dateNew /\ ~dateOk THEN "InvalidDateFormat" ELSE "ok",
                   FALSE, 2, 0, task, FALSE)

editTask(ts, nid, taskId, newName, newDate) ==
    LET i == find(ts, taskId)
    IN  IF i = 0
        THEN Result(ts, nid, "NotFound", FALSE, 0, 0, NoTask, FALSE)
        ELSE
        LET task == ts[i]
            nameOk == /\ Truthy(newName)
                      /\ trim(newName) # <<>>
                      /\ trim(newName) # task.name
            task1 == IF nameOk THEN [task EXCEPT !.name = trim(newName)]
                               ELSE task
            dateNew == Truthy(newDate) /\ newDate # task1.date
            dateOk == dateNew /\ dateRegexTest(newDate)
            task2 == IF dateOk THEN [task1 EXCEPT !.date = newDate]
                               ELSE task1
        IN  Result([ts EXCEPT ![i] = task2], nid,
                   IF dateNew /\ ~dateOk THEN "InvalidDateFormat" ELSE "ok",
                   FALSE, 2, 0, task, FALSE)

\* markAllAsCompleted, negating task.completed of every task
markAllAsCompleted_Toggle(ts, nid, ok) ==
    IF Len(ts) = 0
    THEN Result(ts, nid, "EmptyStore", FALSE, 0, 0, NoTask, FALSE)
    ELSE IF ok
    THEN Result([i \in 1..Len(ts) |->
                    [ts[i] EXCEPT !.completed = ~ts[i].completed]],
                nid, "ok", TRUE, 0, 0, NoTask, TRUE)
    ELSE Result(ts, nid, "declined", TRUE, 0, 0, NoTask, FALSE)

\* markAllAsCompleted, whatever the answer to confirm()
markAllAsCompleted_Regardless(ts, nid, ok) ==
    IF Len(ts) = 0
    THEN Result(ts, nid, "EmptyStore", FALSE, 0, 0, NoTask, FALSE)
    ELSE Result([i \in 1..Len(ts) |-> [ts[i] EXCEPT !.completed = TRUE]],
                nid, IF ok THEN "ok" ELSE "declined", TRUE, 0, 0, NoTask,
                TRUE)

markAllAsCompleted(ts, nid, ok) ==
    IF Len(ts) = 0
    THEN Result(ts, nid, "EmptyStore", FALSE, 0, 0, NoTask, FALSE)
    ELSE IF ok
    THEN Result([i \in 1..Len(ts) |-> [ts[i] EXCEPT !.completed = TRUE]],
                nid, "ok", TRUE, 0, 0, NoTask, TRUE)
    ELSE Result(ts, nid, "declined", TRUE, 0, 0, NoTask, FALSE)

\* clearCompleted, removing the first completed task only
clearCompleted_First(ts, nid, ok) ==
    LET completedTasks == SelectSeq(ts, LAMBDA t : t.completed)
    IN  IF Len(completedTasks) = 0
        THEN Result(ts, nid, "NothingToClear", FALSE, 0, 0, NoTask, FALSE)
        ELSE IF ok
        THEN Result(SelectSeq(ts, LAMBDA t : t.id # completedTasks[1].id), nid,
                    "ok", TRUE, 0, 0, NoTask, TRUE)
        ELSE Result(ts, nid, "declined", TRUE, 0, 0, NoTask, FALSE)

\* clearCompleted, recomputing window.nextId with updateNextId() afterwards
clearCompleted_Renumber(ts, nid, ok) ==
    LET completedTasks == SelectSeq(ts, LAMBDA t : t.completed)
        kept == SelectSeq(ts, LAMBDA t : ~t.completed)
    IN  IF Len(completedTasks) = 0
        THEN Result(ts, nid, "NothingToClear", FALSE, 0, 0, NoTask, FALSE)
        ELSE IF ok
        THEN Result(kept, updateNextId(kept), "ok", TRUE, 0, 0, NoTask, TRUE)
        ELSE Result(ts, nid, "declined", TRUE, 0, 0, NoTask, FALSE)

clearCompleted(ts, nid, ok) ==
    LET completedTasks == SelectSeq(ts, LAMBDA t : t.completed)
    IN  IF Len(completedTasks) = 0
        THEN Result(ts, nid, "NothingToClear", FALSE, 0, 0, NoTask, FALSE)
        ELSE IF ok
        THEN Result(SelectSeq(ts, LAMBDA t : ~t.completed), nid,
                    "ok", TRUE, 0, 0, NoTask, TRUE)
        ELSE Result(ts, nid, "declined", TRUE, 0, 0, NoTask, FALSE)

\* clearAll, emptying the array without resetting window.nextId
clearAll_NoReset(ts, nid, ok) ==
    IF Len(ts) = 0
    THEN Result(ts, nid, "EmptyStore", FALSE, 0, 0, NoTask, FALSE)
    ELSE IF ok
    THEN Result(<<>>, nid, "ok", TRUE, 0, 0, NoTask, TRUE)
    ELSE Result(ts, nid, "declined", TRUE, 0, 0, NoTask, FALSE)

\* clearAll, resetting window.nextId before it looks at the array
clearAll_ResetFirst(ts, nid, ok) ==
    IF Len(ts) = 0
    THEN Result(ts, 1, "EmptyStore", FALSE, 0, 0, NoTask, FALSE)
    ELSE IF ok
    THEN Result(<<>>, 1, "ok", TRUE, 0, 0, NoTask, TRUE)
    ELSE Result(ts, 1, "declined", TRUE, 0, 0, NoTask, FALSE)

clearAll(ts, nid, ok) ==
    IF Len(ts) = 0
    THEN Result(ts, nid, "EmptyStore", FALSE, 0, 0, NoTask, FALSE)
    ELSE IF ok
    THEN Result(<<>>, 1, "ok", TRUE, 0, 0, NoTask, TRUE)
    ELSE Result(ts, nid, "declined", TRUE, 0, 0, NoTask, FALSE)

(***************************************************************************)
(* Map variant: src/unnamed/part_000.  A JavaScript Map iterates in        *)
(* insertion order, so tasksMap is the sequence of its entries.            *)
(***************************************************************************)
Entry(key, value) == [key |-> key, value |-> value]

\* index of the entry with that key, 0 if none
MapIndex(m, key) ==
    IF \E i \in 1..Len(m) : m[i].key = key
    THEN CHOOSE i \in 1..Len(m) : m[i].key = key
    ELSE 0

\* Map.prototype.get; NoTask stands for undefined
MapGet(m, key) ==
    IF MapIndex(m, key) # 0 THEN m[MapIndex(m, key)].value ELSE NoTask

\* Map.prototype.set: an existing key keeps its place and takes the value
MapSet(m, key, value) ==
    IF MapIndex(m, key) # 0
    THEN [m EXCEPT ![MapIndex(m, key)].value = value]
    ELSE Append(m, Entry(key, value))

\* Map.prototype.delete
MapDelete(m, key) == SelectSeq(m, LAMBDA e : e.key # key)

\* Map.prototype.keys, as a set
MapKeys(m) == {m[i].key : i \in 1..Len(m)}

\* Map.prototype.values, in iteration order
MapValues(m) == [i \in 1..Len(m) |-> m[i].value]

\* initialMuseums.forEach(... tasksMap.set(task.id, task)) over the first
\* n seed entries, starting from the map m
RECURSIVE initMapFrom(_, _)
initMapFrom(m, n) ==
    IF n = 0 THEN m
    ELSE LET task == Task(n, initialMuseumsMap[n].name,
                          initialMuseumsMap[n].date,
                          initialMuseumsMap[n].completed)
         IN  MapSet(initMapFrom(m, n - 1), task.id, task)

\* init(), run on the map m
initMap(m) == initMapFrom(m, Len(initialMuseumsMap))

updateNextIdMap(m) ==
    IF Len(m) = 0 THEN 1 ELSE Max(MapKeys(m) \cup {0}) + 1

updateStatsMap(m) ==
    LET totalCount == Len(m)
        completedCount == Len(SelectSeq(m, LAMBDA e : e.value.completed))
    IN  [totalCount |-> totalCount,
         completedCount |-> completedCount,
         pendingCount |-> totalCount - completedCount]

addTaskMap(m, nid, name, date) ==
    IF trim(name) = <<>>
    THEN Result(m, nid, "EmptyName", FALSE, 0, 0, NoTask, FALSE)
    ELSE IF ~Truthy(date)
    THEN Result(m, nid, "MissingDate", FALSE, 0, 0, NoTask, FALSE)
    ELSE LET newTask == Task(nid, trim(name), date, FALSE)
         IN  Result(MapSet(m, newTask.id, newTask), nid + 1, "ok", FALSE, 0,
                    newTask.id, NoTask, TRUE)

toggleDoneMap(m, nid, taskId) ==
    LET i == MapIndex(m, taskId)
        task == MapGet(m, taskId)
    IN  IF i # 0
        THEN Result([m EXCEPT ![i].value.completed = ~task.completed], nid,
                    "ok", FALSE, 0, 0, task, TRUE)
        ELSE Result(m, nid, "NotFound", FALSE, 0, 0, NoTask, FALSE)

removeTaskMap(m, nid, taskId, ok) ==
    IF ok
    THEN Result(MapDelete(m, taskId), nid, "ok", TRUE, 0, 0,
                MapGet(m, taskId), TRUE)
    ELSE Result(m, nid, "declined", TRUE, 0, 0, MapGet(m, taskId), FALSE)

editTaskMap(m, nid, taskId, newName, newDate) ==
    LET i == MapIndex(m, taskId)
    IN  IF i = 0
        THEN Result(m, nid, "NotFound", FALSE, 0, 0, NoTask, FALSE)
        ELSE
        LET task == MapGet(m, taskId)
            nameOk == /\ Truthy(newName)
                      /\ trim(newName) # <<>>
                      /\ trim(newName) # task.name
            task1 == IF nameOk THEN [task EXCEPT !.name = trim(newName)]
                               ELSE task
            dateNew == Truthy(newDate) /\ newDate # task1.date
            dateOk == dateNew /\ dateRegexTest(newDate)
            task2 == IF dateOk THEN [task1 EXCEPT !.date = newDate]
                               ELSE task1
        IN  Result([m EXCEPT ![i].value = task2], nid,
                   IF dateNew /\ ~dateOk THEN "InvalidDateFormat" ELSE "ok",
                   FALSE, 2, 0, task, FALSE)

markAllAsCompletedMap(m, nid, ok) ==
    IF Len(m) = 0
    THEN Result(m, nid, "EmptyStore", FALSE, 0, 0, NoTask, FALSE)
    ELSE IF ok
    THEN Result([i \in 1..Len(m) |-> [m[i] EXCEPT !.value.completed = TRUE]],
                nid, "ok", TRUE, 0, 0, NoTask, TRUE)
    ELSE Result(m, nid, "declined", TRUE, 0, 0, NoTask, FALSE)

clearCompletedMap(m, nid, ok) ==
    LET completedCount == Len(SelectSeq(m, LAMBDA e : e.value.completed))
    IN  IF completedCount = 0
        THEN Result(m, nid, "NothingToClear", FALSE, 0, 0, NoTask, FALSE)
        ELSE IF ok
        THEN Result(SelectSeq(m, LAMBDA e : ~e.value.completed), nid,
                    "ok", TRUE, 0, 0, NoTask, TRUE)
        ELSE Result(m, nid, "declined", TRUE, 0, 0, NoTask, FALSE)

clearAllMap(m, nid, ok) ==
    IF Len(m) = 0
    THEN Result(m, nid, "EmptyStore", FALSE, 0, 0, NoTask, FALSE)
    ELSE IF ok
    THEN Result(<<>>, 1, "ok", TRUE, 0, 0, NoTask, TRUE)
    ELSE Result(m, nid, "declined", TRUE, 0, 0, NoTask, FALSE)

(***************************************************************************)
(* The query of render(): filter, search and sort.                         *)
(***************************************************************************)
UpperCase == <<"A", "B", "C", "D", "E", "F", "G", "H", "I", "J", "K", "L", "M",
               "N", "O", "P", "Q", "R", "S", "T", "U", "V", "W", "X", "Y", "Z">>

LowerCase == <<"a", "b", "c", "d", "e", "f", "g", "h", "i", "j", "k", "l", "m",
               "n", "o", "p", "q", "r", "s", "t", "u", "v", "w", "x", "y", "z">>

\* the characters of the model in collation order (white space, then
\* punctuation, then digits, then letters whatever their case)
Collation == <<"\t", "\n", " ", "-", "'", "/",
               "0", "1", "2", "3", "4", "5", "6", "7", "8", "9",
               "a", "b", "c", "d", "e", "f", "g", "h", "i", "j", "k", "l", "m",
               "n", "o", "p", "q", "r", "s", "t", "u", "v", "w", "x", "y", "z">>

\* the characters of the model
Chars == {Collation[i] : i \in 1..Len(Collation)}
            \cup {UpperCase[i] : i \in 1..26}

upperCaseSet == {UpperCase[i] : i \in 1..26}

IsUpper(c) == c \in upperCaseSet

\* the lower-case form of every character
lowerOf ==
    [c \in Chars |->
        IF \E i \in 1..26 : UpperCase[i] = c
        THEN LowerCase[CHOOSE i \in 1..26 : UpperCase[i] = c]
        ELSE c]

toLowerCaseChar(c) == lowerOf[c]

toLowerCase_Identity(s) == s

\* String.prototype.toLowerCase
toLowerCase(s) == [i \in 1..Len(s) |-> toLowerCaseChar(s[i])]

\* String.prototype.startsWith
includes_StartsWith(s, sub) == SubSeq(s, 1, Len(sub)) = sub

\* String.prototype.includes
includes(s, sub) ==
    \E i \in 0..(Len(s) - Len(sub)) : SubSeq(s, i + 1, i + Len(sub)) = sub

\* the place of every character in the collation order
rankOf ==
    [c \in Chars |->
        CHOOSE i \in 1..Len(Collation) : Collation[i] = lowerOf[c]]

Rank(c) == rankOf[c]

\* comparison of the letters from position i on, ignoring case
RECURSIVE comparePrimary(_, _, _)
comparePrimary(a, b, i) ==
    IF i > Len(a) /\ i > Len(b) THEN 0
    ELSE IF i > Len(a) THEN -1
    ELSE IF i > Len(b) THEN 1
    ELSE IF Rank(a[i]) < Rank(b[i]) THEN -1
    ELSE IF Rank(a[i]) > Rank(b[i]) THEN 1
    ELSE comparePrimary(a, b, i + 1)

\* comparison of the case of two strings with the same letters, from
\* position i on: at the first difference the lower-case letter comes first
RECURSIVE compareCase(_, _, _)
compareCase(a, b, i) ==
    IF i > Len(a) \/ i > Len(b) THEN 0
    ELSE IF a[i] = b[i] THEN compareCase(a, b, i + 1)
    ELSE IF IsUpper(a[i]) THEN 1 ELSE -1

\* String.prototype.localeCompare
localeCompare(a, b) ==
    IF a = b THEN 0
    ELSE LET primary == comparePrimary(a, b, 1)
         IN  IF primary # 0 THEN primary ELSE compareCase(a, b, 1)

\* a JavaScript number: an integer, or NaN
Num(n) == [nan |-> FALSE, v |-> n]

NaN == [nan |-> TRUE, v |-> 0]

\* a - b
Minus(a, b) == IF a.nan \/ b.nan THEN NaN ELSE Num(a.v - b.v)

digitValue(c) == rankOf[c] - 7

\* the characters i..j of s are digits, one at least
IsNumeral(s, i, j) == i <= j /\ \A k \in i..j : s[k] \in Digit

\* the number written by the digits i..j of s
RECURSIVE numeral(_, _, _)
numeral(s, i, j) ==
    IF j < i THEN 0
    ELSE 10 * numeral(s, i, j - 1) + digitValue(s[j])

\* time value of a calendar day, in days (months counted as 31 days)
dayNumber(y, m, d) ==
    IF m \in 1..12 /\ d \in 1..31 THEN Num((y * 12 + (m - 1)) * 31 + d)
    ELSE NaN

\* the positions of the slashes of s
slashes(s) == {i \in 1..Len(s) : s[i] = "/"}

\* new Date(s).getTime(): the ISO form YYYY-MM-DD, else the form
\* month/day/year that the engines accept as well, else NaN (Invalid Date)
parseDate(s) ==
    IF dateRegexTest(s)
    THEN dayNumber(numeral(s, 1, 4), numeral(s, 6, 7), numeral(s, 9, 10))
    ELSE LET at == slashes(s)
         IN  IF Cardinality(at) = 2
             THEN LET i == CHOOSE x \in at : \A z \in at : x <= z
                      j == CHOOSE x \in at : \A z \in at : z <= x
                  IN  IF /\ IsNumeral(s, 1, i - 1)
                         /\ IsNumeral(s, i + 1, j - 1)
                         /\ IsNumeral(s, j + 1, Len(s))
                      THEN dayNumber(numeral(s, j + 1, Len(s)),
                                     numeral(s, 1, i - 1),
                                     numeral(s, i + 1, j - 1))
                      ELSE NaN
             ELSE NaN

\* what the user put in the date field, or answered to the date prompt
DateInputs == { <<>>,
                <<"2","0","2","5","-","0","1","-","0","1">>,
                <<"2","0","2","5","-","1","3","-","4","0">>,
                <<"1","/","2","/","2","0","2","5">> }

\* the dates a task can have: those of the seeds and those the user enters
Dates ==
    {initialMuseums[i].date : i \in 1..Len(initialMuseums)}
        \cup {initialMuseumsMap[i].date : i \in 1..Len(initialMuseumsMap)}
        \cup DateInputs

\* parseDate of every date a task can have
timeOf == [s \in Dates |-> parseDate(s)]

\* new Date(s).getTime() of the date of a task
getTime(s) == timeOf[s]

Number(b) == IF b THEN 1 ELSE 0

\* the comparison function handed to sort(); NaN when a date is invalid
compareFn(sortBy, a, b) ==
    CASE sortBy = "name" -> Num(localeCompare(a.name, b.name))
      [] sortBy = "date" -> Minus(getTime(a.date), getTime(b.date))
      [] sortBy = "status" ->
            Minus(Num(Number(a.completed)), Num(Number(b.completed)))
      [] OTHER -> Num(0)

\* SortCompare: a NaN from the comparison function counts as +0
SortCompare(sortBy, a, b) ==
    LET v == compareFn(sortBy, a, b)
    IN  IF v.nan THEN 0 ELSE v.v

InsertAt(list, k, x) ==
    SubSeq(list, 1, k) \o <<x>> \o SubSeq(list, k + 1, Len(list))

\* linearPlace, walking down past the elements equal to x as well
RECURSIVE linearPlace_PastEquals(_, _, _, _)
linearPlace_PastEquals(sortBy, list, x, j) ==
    IF j > 0 /\ SortCompare(sortBy, list[j], x) >= 0
    THEN linearPlace_PastEquals(sortBy, list, x, j - 1)
    ELSE j

\* number of leading elements of the sorted list that stay before x, found
\* by walking down from the end
RECURSIVE linearPlace(_, _, _, _)
linearPlace(sortBy, list, x, j) ==
    IF j > 0 /\ SortCompare(sortBy, list[j], x) > 0
    THEN linearPlace(sortBy, list, x, j - 1)
    ELSE j

\* the same, found by bisection
RECURSIVE binaryPlace(_, _, _, _, _)
binaryPlace(sortBy, list, x, lo, hi) ==
    IF lo < hi
    THEN LET mid == (lo + hi) \div 2
         IN  IF SortCompare(sortBy, x, list[mid + 1]) < 0
             THEN binaryPlace(sortBy, list, x, lo, mid)
             ELSE binaryPlace(sortBy, list, x, mid + 1, hi)
    ELSE lo

\* the two ways an engine sorts a short array; both are stable
SortImpls == {"linear", "binary"}

\* Array.prototype.sort((a, b) => ...), as the engine impl does it
RECURSIVE sort(_, _, _)
sort(list, sortBy, impl) ==
    IF Len(list) <= 1 THEN list
    ELSE LET front == sort(SubSeq(list, 1, Len(list) - 1), sortBy, impl)
             x == list[Len(list)]
         IN  InsertAt(front,
                      IF impl = "linear"
                      THEN linearPlace(sortBy, front, x, Len(front))
                      ELSE binaryPlace(sortBy, front, x, 0, Len(front)),
                      x)

\* the engines that can differ on this list: only an inconsistent
\* comparison function (one that met an invalid date) leaves the order to
\* the engine
Engines(ts, sortBy) ==
    IF sortBy = "date" /\ \E i \in 1..Len(ts) : getTime(ts[i].date).nan
    THEN SortImpls
    ELSE {"linear"}

matches(task, statusFilter, searchTerm) ==
    LET matchesStatus ==
            \/ statusFilter = "all"
            \/ (statusFilter = "pending" /\ ~task.completed)
            \/ (statusFilter = "completed" /\ task.completed)
        matchesSearch == includes(toLowerCase(task.name), searchTerm)
    IN  matchesStatus /\ matchesSearch

\* render(), sorting the array itself before it filters
render_SortInPlace(ts, statusFilter, searchInput, sortBy, impl) ==
    LET searchTerm == toLowerCase(searchInput)
        sorted == sort(ts, sortBy, impl)
        filteredTasks ==
            SelectSeq(sorted,
                      LAMBDA task : matches(task, statusFilter, searchTerm))
    IN  [tasks |-> sorted, view |-> filteredTasks]

\* render() of the array script: the array it leaves and the tasks it shows
render(ts, statusFilter, searchInput, sortBy, impl) ==
    LET searchTerm == toLowerCase(searchInput)
        filteredTasks ==
            SelectSeq(ts, LAMBDA task : matches(task, statusFilter, searchTerm))
    IN  [tasks |-> ts, view |-> sort(filteredTasks, sortBy, impl)]

\* render() of the Map script: the map it leaves and the tasks it shows
renderMap(m, statusFilter, searchInput, sortBy, impl) ==
    LET searchTerm == toLowerCase(searchInput)
        filteredTasks ==
            SelectSeq(MapValues(m),
                      LAMBDA task : matches(task, statusFilter, searchTerm))
    IN  [tasks |-> m, view |-> sort(filteredTasks, sortBy, impl)]

(***************************************************************************)
(* The session: one page load, then user gestures.                         *)
(***************************************************************************)
VARIABLES
    tasks,      \* array script: let tasks
    nextId,     \* array script: window.nextId
    stats,      \* array script: totalCount / completedCount / pendingCount
    out,        \* array script: what the last call reported
    issued,     \* array script: ids given to constructed tasks, in order,
                \*               with a 0 for every clearAll that emptied
    addRun,     \* array script: the successful adds since the last other call
    tasksMap,   \* Map script: let tasksMap
    nextIdMap,  \* Map script: window.nextId
    statsMap,   \* Map script: totalCount / completedCount / pendingCount
    outMap,     \* Map script: what the last call reported
    issuedMap,  \* Map script: as issued
    addRunMap,  \* Map script: as addRun
    call,       \* the last gesture and its inputs
    ops,        \* number of gestures so far
    limit,      \* number of gestures of this session
    query,      \* the control values read by the last query
    view,       \* array script: filteredTasks of the last query
    viewMap,    \* Map script: filteredTasks of the last query
    prior,      \* array script: tasks and nextId before the last call,
                \*               kept when that call was toggleDone
    priorMap    \* Map script: as prior

vars == <<tasks, nextId, stats, out, issued, addRun,
          tasksMap, nextIdMap, statsMap, outMap, issuedMap, addRunMap,
          call, ops, limit, query, view, viewMap, prior, priorMap>>

\* the values of the statusFilter control
StatusFilters == {"all", "pending", "completed"}

\* what the user types in the search field
SearchInputs == { <<>>, <<"m", "u", "s", "e", "o">>, <<"X">> }

\* the values of the sortBy control, "none" being one render() does not know
SortKeys == {"name", "date", "status", "none"}

Controls(statusFilter, searchInput, sortBy) ==
    [statusFilter |-> statusFilter, searchInput |-> searchInput,
     sortBy |-> sortBy]

\* no query was made yet
NoQuery == Controls("", <<>>, "")

\* what the user typed in the name field, or answered to the name prompt
NameInputs == { <<>>, <<" ", "\t">>, <<" ", "X", " ">> }

TargetIds == (1..MaxTarget) \cup {Len(initialMuseums) + 1}

Call(op, id, name, date, ok) ==
    [op |-> op, id |-> id, name |-> name, date |-> date, ok |-> ok]

Outcome(r) ==
    [res |-> r.res, asked |-> r.asked, prompts |-> r.prompts,
     newId |-> r.newId, old |-> r.old]

Issue(log, c, r) ==
    IF r.newId # 0 THEN Append(log, r.newId)
    ELSE IF c.op = "clearAll" /\ r.res = "ok" THEN Append(log, 0)
    ELSE log

Run(run, c, r, sizeBefore, sizeAfter) ==
    IF c.op = "addTask" /\ r.res = "ok"
    THEN Append(run, [id |-> r.newId, grew |-> sizeAfter - sizeBefore])
    ELSE <<>>

Store(ts, nid) == [tasks |-> ts, nextId |-> nid]

NoStore == Store(<<>>, 0)

\* what toggleDone started from, nothing for any other call
Before(c, ts, nid) == IF c.op = "toggleDone" THEN Store(ts, nid) ELSE NoStore

\* one gesture c, which did r in the array script and rm in the Map script
Step(c, r, rm) ==
    /\ ops < limit
    /\ ops' = ops + 1
    /\ UNCHANGED <<limit, query, view, viewMap>>
    /\ call' = c
    /\ tasks' = r.tasks
    /\ nextId' = r.nextId
    /\ stats' = IF r.stats THEN updateStats(r.tasks) ELSE stats
    /\ out' = Outcome(r)
    /\ issued' = Issue(issued, c, r)
    /\ addRun' = Run(addRun, c, r, Len(tasks), Len(r.tasks))
    /\ tasksMap' = rm.tasks
    /\ nextIdMap' = rm.nextId
    /\ statsMap' = IF rm.stats THEN updateStatsMap(rm.tasks) ELSE statsMap
    /\ outMap' = Outcome(rm)
    /\ issuedMap' = Issue(issuedMap, c, rm)
    /\ addRunMap' = Run(addRunMap, c, rm, Len(tasksMap), Len(rm.tasks))
    /\ prior' = Before(c, tasks, nextId)
    /\ priorMap' = Before(c, tasksMap, nextIdMap)

\* DOMContentLoaded: init()
Loaded ==
    /\ tasks = init
    /\ nextId = updateNextId(init)
    /\ stats = updateStats(init)
    /\ out = Outcome(Result(init, 0, "ok", FALSE, 0, 0, NoTask, TRUE))
    /\ issued = [i \in 1..Len(init) |-> init[i].id]
    /\ addRun = <<>>
    /\ tasksMap = initMap(<<>>)
    /\ nextIdMap = updateNextIdMap(initMap(<<>>))
    /\ statsMap = updateStatsMap(initMap(<<>>))
    /\ outMap = Outcome(Result(<<>>, 0, "ok", FALSE, 0, 0, NoTask, TRUE))
    /\ issuedMap = [i \in 1..Len(initMap(<<>>)) |-> initMap(<<>>)[i].key]
    /\ addRunMap = <<>>
    /\ call = Call("init", 0, <<>>, <<>>, FALSE)
    /\ ops = 0
    /\ query = NoQuery
    /\ view = <<>>
    /\ viewMap = <<>>
    /\ prior = NoStore
    /\ priorMap = NoStore

\* a session of MaxOps gestures on the tasks
Init == Loaded /\ limit = MaxOps

\* a session of MaxQueryOps gestures on the tasks and the filter controls
QueryInit == Loaded /\ limit = MaxQueryOps

\* click on addBtn, or Enter in taskInput
AddTask ==
    \E name \in NameInputs, date \in DateInputs :
        Step(Call("addTask", 0, name, date, FALSE),
             addTask(tasks, nextId, name, date),
             addTaskMap(tasksMap, nextIdMap, name, date))

\* change of a task's checkbox
ToggleDone ==
    \E taskId \in TargetIds :
        Step(Call("toggleDone", taskId, <<>>, <<>>, FALSE),
             toggleDone(tasks, nextId, taskId),
             toggleDoneMap(tasksMap, nextIdMap, taskId))

\* click on a task's delete button; ok is the answer to confirm()
RemoveTask ==
    \E taskId \in TargetIds, ok \in BOOLEAN :
        Step(Call("removeTask", taskId, <<>>, <<>>, ok),
             removeTask(tasks, nextId, taskId, ok),
             removeTaskMap(tasksMap, nextIdMap, taskId, ok))

\* click on a task's edit button; newName and newDate answer the prompts
EditTask ==
    \E taskId \in TargetIds,
       newName \in NameInputs \cup {null},
       newDate \in DateInputs \cup {null} :
        Step(Call("editTask", taskId, newName, newDate, FALSE),
             editTask(tasks, nextId, taskId, newName, newDate),
             editTaskMap(tasksMap, nextIdMap, taskId, newName, newDate))

\* click on markAllBtn
MarkAllAsCompleted ==
    \E ok \in BOOLEAN :
        Step(Call("markAllAsCompleted", 0, <<>>, <<>>, ok),
             markAllAsCompleted(tasks, nextId, ok),
             markAllAsCompletedMap(tasksMap, nextIdMap, ok))

\* click on clearCompletedBtn
ClearCompleted ==
    \E ok \in BOOLEAN :
        Step(Call("clearCompleted", 0, <<>>, <<>>, ok),
             clearCompleted(tasks, nextId, ok),
             clearCompletedMap(tasksMap, nextIdMap, ok))

\* click on clearAllBtn
ClearAll ==
    \E ok \in BOOLEAN :
        Step(Call("clearAll", 0, <<>>, <<>>, ok),
             clearAll(tasks, nextId, ok),
             clearAllMap(tasksMap, nextIdMap, ok))

Next ==
    \/ AddTask
    \/ ToggleDone
    \/ RemoveTask
    \/ EditTask
    \/ MarkAllAsCompleted
    \/ ClearCompleted
    \/ ClearAll

Spec == Init /\ [][Next]_vars

\* change of statusFilter or sortBy, input in searchInput: render() reads
\* the three controls and runs the query on the engine impl
Query ==
    \E statusFilter \in StatusFilters, searchInput \in SearchInputs,
       sortBy \in SortKeys :
      \E impl \in Engines(tasks, sortBy)
                     \cup Engines(MapValues(tasksMap), sortBy) :
        /\ ops < limit
        /\ ops' = ops + 1
        /\ call' = Call("render", 0, <<>>, <<>>, FALSE)
        /\ query' = Controls(statusFilter, searchInput, sortBy)
        /\ \E rr \in {render(tasks, statusFilter, searchInput, sortBy, impl)} :
                tasks' = rr.tasks /\ view' = rr.view
        /\ \E rr \in {renderMap(tasksMap, statusFilter, searchInput, sortBy,
                                 impl)} :
                tasksMap' = rr.tasks /\ viewMap' = rr.view
        /\ out' = Outcome(Result(tasks, nextId, "ok", FALSE, 0, 0, NoTask,
                                 FALSE))
        /\ outMap' = Outcome(Result(tasksMap, nextIdMap, "ok", FALSE, 0, 0,
                                    NoTask, FALSE))
        /\ addRun' = <<>>
        /\ addRunMap' = <<>>
        /\ prior' = NoStore
        /\ priorMap' = NoStore
        /\ UNCHANGED <<nextId, stats, issued, nextIdMap, statsMap, issuedMap,
                       limit>>

QueryNext == Next \/ Query

SpecQuery == QueryInit /\ [][QueryNext]_vars

\* a session of MaxInitOps calls, init() among them
InitInit == Loaded /\ limit = MaxInitOps

\* init() called again, on the tasks the scripts hold at that time
InitAgain ==
    Step(Call("init", 0, <<>>, <<>>, FALSE),
         Result(init, updateNextId(init), "ok", FALSE, 0, 0, NoTask, TRUE),
         Result(initMap(tasksMap), updateNextIdMap(initMap(tasksMap)),
                "ok", FALSE, 0, 0, NoTask, TRUE))

InitNext == Next \/ InitAgain

SpecInit == InitInit /\ [][InitNext]_vars

(***************************************************************************)
(* Properties.  Each is stated for both scripts.                           *)
(***************************************************************************)
\* the tasks of the Map script, in iteration order
mapTasks == MapValues(tasksMap)

\* the task with that id in a sequence of tasks, or NoTask
Get(ts, taskId) == IF find(ts, taskId) # 0 THEN ts[find(ts, taskId)] ELSE NoTask

UniqueIds(ts) == \A i, j \in 1..Len(ts) : ts[i].id = ts[j].id => i = j

\* no id was given out twice
NeverReissued(log) ==
    \A i, j \in 1..Len(log) : (log[i] # 0 /\ log[i] = log[j]) => i = j

\* no id was given out twice without a clearAll (a 0) in between
ReissuedOnlyAfterClearAll(log) ==
    \A i, j \in 1..Len(log) :
        (i < j /\ log[i] # 0 /\ log[i] = log[j])
            => \E k \in i..j : log[k] = 0

AddedOk(c, o) == c.op = "addTask" /\ o.res = "ok"

D20250101 == <<"2","0","2","5","-","0","1","-","0","1">>
D20251340 == <<"2","0","2","5","-","1","3","-","4","0">>
PaddedX == <<" ", "X", " ">>
JustX == <<"X">>

\* C1 (as claimed): the ids in the store are pairwise distinct, and over the
\* whole session no id is given to two different records, not even after
\* the first holder was deleted by remove, clearCompleted or clearAll.
C1_IdsNeverReused ==
    /\ UniqueIds(tasks) /\ UniqueIds(mapTasks)
    /\ NeverReissued(issued) /\ NeverReissued(issuedMap)

\* C1 (amended): the ids in the store are pairwise distinct, and an id once
\* given to a record is given to a new record only after a confirmed
\* clearAll emptied the store in between; deleting by remove or
\* clearCompleted never makes an id available again.
C1_IdsReusedOnlyAfterClearAll ==
    /\ UniqueIds(tasks) /\ UniqueIds(mapTasks)
    /\ ReissuedOnlyAfterClearAll(issued)
    /\ ReissuedOnlyAfterClearAll(issuedMap)

\* an add succeeded after records were deleted without any clearAll
C1_Witness ==
    /\ AddedOk(call, out) /\ AddedOk(call, outMap)
    /\ \A i \in 1..Len(issued) : issued[i] # 0
    /\ Len(tasks) < Len(issued)
    /\ Len(tasksMap) < Len(issuedMap)

\* C2: in a run of successful adds with no other call in between, the ids
\* of the created records are strictly increasing (hence pairwise distinct)
\* and every add made the store one record longer.
C2_AddIdsStrictlyIncreasing ==
    \A run \in {addRun, addRunMap} :
        /\ \A i, j \in 1..Len(run) : i < j => run[i].id < run[j].id
        /\ \A i \in 1..Len(run) : run[i].grew = 1

\* three successful adds in a row
C2_Witness == Len(addRun) >= 3 /\ Len(addRunMap) >= 3

\* C3: every stored visitDate has the shape YYYY-MM-DD.
C3_DatesHaveShape ==
    /\ \A i \in 1..Len(tasks) : dateRegexTest(tasks[i].date)
    /\ \A i \in 1..Len(mapTasks) : dateRegexTest(mapTasks[i].date)

\* a name that is not empty and neither starts nor ends with white space
IsTrimmedName(name) ==
    /\ name # <<>>
    /\ name[1] \notin WhiteSpace
    /\ name[Len(name)] \notin WhiteSpace

\* C4: every stored name is non-empty and has no white space at either end,
\* whatever add and edit were given.
C4_NamesTrimmed ==
    /\ \A i \in 1..Len(tasks) : IsTrimmedName(tasks[i].name)
    /\ \A i \in 1..Len(mapTasks) : IsTrimmedName(mapTasks[i].name)

\* a record added from a padded name, and a record renamed from a padded
\* name, are both in the store
C4_Witness ==
    /\ AddedOk(call, out) /\ AddedOk(call, outMap)
    /\ call.name = PaddedX
    /\ tasks[Len(tasks)].name = JustX
    /\ mapTasks[Len(mapTasks)].name = JustX
    /\ Get(tasks, 1).name = JustX
    /\ Get(mapTasks, 1).name = JustX

\* the call reported an error and left records and nextId as they were
FailsClean(o, before, nidBefore, after, nidAfter) ==
    o.res \in Errors => (after = before /\ nidAfter = nidBefore)

\* as FailsClean, except that an edit reporting InvalidDateFormat may have
\* replaced the name of the edited task by the trimmed new name
FailsCleanButName(c, o, before, nidBefore, after, nidAfter) ==
    o.res \in Errors =>
        /\ nidAfter = nidBefore
        /\ IF o.res = "InvalidDateFormat"
           THEN /\ c.op = "editTask"
                /\ Len(after) = Len(before)
                /\ \A i \in 1..Len(before) :
                    \/ after[i] = before[i]
                    \/ /\ before[i].id = c.id
                       /\ after[i] = [before[i] EXCEPT !.name = trim(c.name)]
           ELSE after = before

\* the keys of the Map script's entries, in iteration order
mapKeys(m) == [i \in 1..Len(m) |-> m[i].key]

\* C5 (as claimed): whenever a call reports an error (EmptyName,
\* MissingDate, InvalidDateFormat, NotFound, EmptyStore, NothingToClear),
\* the records and nextId are what they were before the call.
C5_NoPartialMutation ==
    [][ /\ FailsClean(out', tasks, nextId, tasks', nextId')
        /\ FailsClean(outMap', tasksMap, nextIdMap, tasksMap', nextIdMap')
      ]_vars

\* C5 (amended): whenever add, toggleCompleted, markAllCompleted,
\* clearCompleted or clearAll reports an error, or edit reports NotFound,
\* the records and nextId are what they were before the call; when edit
\* reports InvalidDateFormat, nextId and the records are what they were
\* except that the edited record's name may already be the trimmed new name.
C5_NoPartialMutationButEditName ==
    [][ /\ FailsCleanButName(call', out', tasks, nextId, tasks', nextId')
        /\ FailsCleanButName(call', outMap', mapTasks, nextIdMap,
                             mapTasks', nextIdMap')
        /\ (outMap'.res \in Errors => mapKeys(tasksMap') = mapKeys(tasksMap))
      ]_vars

\* an edit reported InvalidDateFormat and its task is as it was
C5_Witness ==
    /\ out.res = "InvalidDateFormat" /\ outMap.res = "InvalidDateFormat"
    /\ out.old # NoTask /\ outMap.old # NoTask
    /\ Get(tasks, call.id) = out.old
    /\ Get(mapTasks, call.id) = outMap.old

\* edit of an existing task with a usable new name and a non-empty new date
\* of the wrong shape: the name is set, the date is kept, the error reported
EditKeepsNameDropsDate(c, o, before, after) ==
    LET task == Get(before, c.id)
    IN  ( /\ c.op = "editTask"
          /\ task # NoTask
          /\ Truthy(c.name)
          /\ trim(c.name) # <<>>
          /\ trim(c.name) # task.name
          /\ Truthy(c.date)
          /\ c.date # task.date
          /\ ~dateRegexTest(c.date) )
        => /\ o.res = "InvalidDateFormat"
           /\ Get(after, c.id) = [task EXCEPT !.name = trim(c.name)]

\* C6: edit on an existing id with a new name that is non-empty after
\* trimming and differs from the current name, and a (non-empty) new date
\* that differs from the current date and fails the YYYY-MM-DD shape check,
\* sets name to the trimmed new name, reports InvalidDateFormat and leaves
\* visitDate unchanged.
C6_EditNameAppliedDateRejected ==
    [][ /\ EditKeepsNameDropsDate(call', out', tasks, tasks')
        /\ EditKeepsNameDropsDate(call', outMap', mapTasks, mapTasks')
      ]_vars

\* an edit renamed its task and rejected the date
C6_Witness ==
    /\ call.op = "editTask"
    /\ out.res = "InvalidDateFormat" /\ outMap.res = "InvalidDateFormat"
    /\ Get(tasks, call.id).name = JustX /\ out.old.name # JustX
    /\ Get(mapTasks, call.id).name = JustX /\ outMap.old.name # JustX
    /\ Get(tasks, call.id).date = out.old.date
    /\ Get(mapTasks, call.id).date = outMap.old.date

IsEdit1340(c, before) ==
    /\ c.op = "editTask"
    /\ Get(before, c.id) # NoTask
    /\ c.name = null
    /\ c.date = D20251340

\* C7 (as claimed): edit(id, null, "2025-13-40") on an existing record
\* reports InvalidDateFormat and the record keeps its prior visitDate.
C7_Edit1340Rejected ==
    [][ /\ IsEdit1340(call', tasks) =>
              /\ out'.res = "InvalidDateFormat"
              /\ Get(tasks', call'.id).date = Get(tasks, call'.id).date
        /\ IsEdit1340(call', mapTasks) =>
              /\ outMap'.res = "InvalidDateFormat"
              /\ Get(mapTasks', call'.id).date = Get(mapTasks, call'.id).date
      ]_vars

\* C7 (amended): edit(id, null, "2025-13-40") on an existing record is
\* accepted, since the string has the shape YYYY-MM-DD: no InvalidDateFormat
\* is reported, the record's visitDate becomes "2025-13-40" and nothing
\* else of the record changes.
C7_Edit1340Accepted ==
    [][ /\ IsEdit1340(call', tasks) =>
              /\ out'.res = "ok"
              /\ Get(tasks', call'.id) =
                    [Get(tasks, call'.id) EXCEPT !.date = D20251340]
        /\ IsEdit1340(call', mapTasks) =>
              /\ outMap'.res = "ok"
              /\ Get(mapTasks', call'.id) =
                    [Get(mapTasks, call'.id) EXCEPT !.date = D20251340]
      ]_vars

\* edit(id, null, "2025-13-40") replaced another date
C7_Witness ==
    /\ call.op = "editTask" /\ call.name = null /\ call.date = D20251340
    /\ out.old # NoTask /\ out.old.date # D20251340
    /\ outMap.old # NoTask /\ outMap.old.date # D20251340
    /\ Get(tasks, call.id).date = D20251340
    /\ Get(mapTasks, call.id).date = D20251340

IsBlank(name) == \A i \in 1..Len(name) : name[i] \in WhiteSpace

AddBlankFails(c, o, before, nidBefore, after, nidAfter) ==
    (c.op = "addTask" /\ IsBlank(c.name))
        => /\ o.res = "EmptyName"
           /\ o.newId = 0
           /\ after = before
           /\ nidAfter = nidBefore

\* C8: add with an empty or white-space-only name, whatever the date (a
\* missing one included), reports EmptyName, inserts no record and leaves
\* the records and nextId unchanged.
C8_AddBlankNameFails ==
    [][ /\ AddBlankFails(call', out', tasks, nextId, tasks', nextId')
        /\ AddBlankFails(call', outMap', tasksMap, nextIdMap,
                         tasksMap', nextIdMap')
      ]_vars

\* add was called with a white-space-only name and no date
C8_Witness ==
    /\ call.op = "addTask"
    /\ call.name = <<" ", "\t">>
    /\ call.date = <<>>
    /\ out.res = "EmptyName" /\ outMap.res = "EmptyName"

\* the step is a successful add that follows a clearAll answered with yes
AddAfterClearAll(c, c2, o2) ==
    c.op = "clearAll" /\ c.ok /\ AddedOk(c2, o2)

\* C9 (as claimed): in every reachable state, clearAll() with confirmation
\* granted followed by add with valid input gives the new record id 1.
C9_AddAfterClearAllGetsId1 ==
    [][ /\ AddAfterClearAll(call, call', out') => out'.newId = 1
        /\ AddAfterClearAll(call, call', outMap') => outMap'.newId = 1
      ]_vars

\* C9 (amended): in every reachable state with a non-empty store, clearAll()
\* with confirmation granted followed by add with valid input gives the new
\* record id 1; on an empty store clearAll reports EmptyStore instead of
\* clearing, and the following add gets the nextId there was.
C9_AddAfterClearAllOfNonEmptyGetsId1 ==
    [][ /\ (call'.op = "clearAll" /\ call'.ok) =>
              /\ (out'.res = "ok") <=> (Len(tasks) # 0)
              /\ (out'.res = "EmptyStore") <=> (Len(tasks) = 0)
              /\ (outMap'.res = "ok") <=> (Len(tasksMap) # 0)
              /\ (outMap'.res = "EmptyStore") <=> (Len(tasksMap) = 0)
        /\ AddAfterClearAll(call, call', out') =>
              out'.newId = IF out.res = "ok" THEN 1 ELSE nextId
        /\ AddAfterClearAll(call, call', outMap') =>
              outMap'.newId = IF outMap.res = "ok" THEN 1 ELSE nextIdMap
      ]_vars

\* a record with id 1 was added right after a clearAll that emptied a store
C9_Witness ==
    /\ AddedOk(call, out) /\ AddedOk(call, outMap)
    /\ out.newId = 1 /\ outMap.newId = 1
    /\ Len(issued) >= 2 /\ issued[Len(issued) - 1] = 0
    /\ Len(issuedMap) >= 2 /\ issuedMap[Len(issuedMap) - 1] = 0
    /\ tasks[1].id = 1 /\ mapTasks[1].id = 1

Counts(total, completed, pending) ==
    [totalCount |-> total, completedCount |-> completed,
     pendingCount |-> pending]

\* C10 (as claimed): right after init() the counts are 8 in total, 3
\* completed and 5 pending.
C10_SeedCounts835 ==
    call.op = "init" =>
        (stats = Counts(8, 3, 5) /\ statsMap = Counts(8, 3, 5))

\* C10 (amended): right after init() the counts are 8 in total, 2 completed
\* and 6 pending.
C10_SeedCounts826 ==
    call.op = "init" =>
        (stats = Counts(8, 2, 6) /\ statsMap = Counts(8, 2, 6))

\* the freshly seeded store of eight records
C10_Witness ==
    /\ call.op = "init"
    /\ Len(tasks) = 8 /\ Len(tasksMap) = 8
    /\ stats.totalCount = 8 /\ statsMap.totalCount = 8

(***************************************************************************)
(* The query.                                                              *)
(***************************************************************************)
\* the last call was the query with these control values
Queried(statusFilter, searchInput, sortBy) ==
    call.op = "render" /\ query = Controls(statusFilter, searchInput, sortBy)

museo == <<"m", "u", "s", "e", "o">>

\* the elements of a sequence
Range(list) == {list[i] : i \in 1..Len(list)}

\* the first gesture of the session was the query for "museo" in all tasks
SeedQueriedForMuseo ==
    ops = 1 /\ \E sortBy \in SortKeys : Queried("all", museo, sortBy)

\* C11 (as claimed): on the freshly seeded store the query with status
\* "all", search text "museo" and any sort key returns all 8 seed tasks.
C11_MuseoReturnsAllEight ==
    SeedQueriedForMuseo =>
        /\ Len(view) = 8 /\ Range(view) = Range(tasks)
        /\ Len(viewMap) = 8 /\ Range(viewMap) = Range(mapTasks)

\* C11 (amended): on the freshly seeded store the query with status "all",
\* search text "museo" and any sort key returns 7 of the 8 seed tasks: all
\* but task 2, "Pinacoteca Nazionale di Bologna", whose name does not
\* contain "museo".
C11_MuseoReturnsAllButPinacoteca ==
    SeedQueriedForMuseo =>
        /\ Len(view) = 7
        /\ Range(view) = {tasks[k] : k \in (1..8) \ {2}}
        /\ Len(viewMap) = 7
        /\ Range(viewMap) = {mapTasks[k] : k \in (1..8) \ {2}}

\* the seed tasks queried for "museo", sorted by name
C11_Witness ==
    /\ ops = 1 /\ Queried("all", museo, "name")
    /\ Len(tasks) = 8 /\ Len(view) = 7
    /\ Len(mapTasks) = 8 /\ Len(viewMap) = 7

(***************************************************************************)
(* toggleDone.                                                             *)
(***************************************************************************)
\* the last call was toggleDone and found the task
Toggled(c, o) == c.op = "toggleDone" /\ o.res = "ok"

\* after is before with the completed flag of the task taskId negated, and
\* no other difference
OnlyFlagFlipped(bef, after, taskId) ==
    /\ Len(after) = Len(bef)
    /\ \A i \in 1..Len(bef) :
          after[i] = IF bef[i].id = taskId
                     THEN [bef[i] EXCEPT !.completed = ~bef[i].completed]
                     ELSE bef[i]

\* C12: toggleDone of an id in the store changes the completed flag of the
\* task with that id and nothing else (no other task, no name, date or id,
\* not the order, not nextId); a second toggleDone of the same id right
\* after it leaves the tasks and nextId as they were before the first.
C12_ToggleTwiceRestores ==
    [][ /\ Toggled(call', out') =>
              /\ OnlyFlagFlipped(tasks, tasks', call'.id)
              /\ nextId' = nextId
        /\ Toggled(call', outMap') =>
              /\ OnlyFlagFlipped(mapTasks, mapTasks', call'.id)
              /\ mapKeys(tasksMap') = mapKeys(tasksMap)
              /\ nextIdMap' = nextIdMap
        /\ (Toggled(call, out) /\ Toggled(call', out') /\ call'.id = call.id)
              => Store(tasks', nextId') = prior
        /\ (Toggled(call, outMap) /\ Toggled(call', outMap')
                /\ call'.id = call.id)
              => Store(tasksMap', nextIdMap') = priorMap
      ]_vars

\* task 1 of the seed toggled twice, as the first two gestures
C12_Witness ==
    /\ ops = 2
    /\ Toggled(call, out) /\ Toggled(call, outMap) /\ call.id = 1
    /\ prior.tasks # tasks /\ priorMap.tasks # tasksMap
    /\ tasks = init /\ tasksMap = initMap(<<>>)

(***************************************************************************)
(* removeTask.                                                             *)
(***************************************************************************)
\* the last call was removeTask, and the user confirmed
Removed(c, o) == c.op = "removeTask" /\ o.res = "ok"

\* the list without its k-th element
Without(list, k) == SubSeq(list, 1, k - 1) \o SubSeq(list, k + 1, Len(list))

\* after is bef without the task taskId, which bef holds at one place
OnlyTaskDeleted(bef, after, taskId) ==
    \E k \in 1..Len(bef) :
        /\ bef[k].id = taskId
        /\ after = Without(bef, k)
        /\ \A i \in 1..Len(after) : after[i].id # taskId

\* C13: a confirmed removeTask of an id that is not in the store leaves the
\* tasks and nextId as they are; of an id that is in the store it deletes
\* the task with that id and no other, the rest keeping their order, and
\* leaves nextId; a second confirmed removeTask of the same id right after
\* the first changes nothing more.
C13_RemoveIdempotent ==
    [][ /\ (Removed(call', out') /\ Get(tasks, call'.id) = NoTask)
              => (tasks' = tasks /\ nextId' = nextId)
        /\ (Removed(call', outMap') /\ Get(mapTasks, call'.id) = NoTask)
              => (tasksMap' = tasksMap /\ nextIdMap' = nextIdMap)
        /\ (Removed(call', out') /\ Get(tasks, call'.id) # NoTask)
              => /\ OnlyTaskDeleted(tasks, tasks', call'.id)
                 /\ nextId' = nextId
        /\ (Removed(call', outMap') /\ Get(mapTasks, call'.id) # NoTask)
              => /\ OnlyTaskDeleted(mapTasks, mapTasks', call'.id)
                 /\ OnlyTaskDeleted([i \in 1..Len(tasksMap) |->
                                        [id |-> tasksMap[i].key]],
                                    [i \in 1..Len(tasksMap') |->
                                        [id |-> tasksMap'[i].key]],
                                    call'.id)
                 /\ nextIdMap' = nextIdMap
        /\ (Removed(call, out) /\ Removed(call', out') /\ call'.id = call.id)
              => (tasks' = tasks /\ nextId' = nextId)
        /\ (Removed(call, outMap) /\ Removed(call', outMap')
                /\ call'.id = call.id)
              => (tasksMap' = tasksMap /\ nextIdMap' = nextIdMap)
      ]_vars

\* task 1 of the seed removed twice, as the first two gestures
C13_Witness ==
    /\ ops = 2
    /\ Removed(call, out) /\ Removed(call, outMap) /\ call.id = 1
    /\ out.old = NoTask /\ outMap.old = NoTask
    /\ Len(tasks) = 7 /\ Len(tasksMap) = 7
    /\ tasks[1].id = 2 /\ tasksMap[1].key = 2

(***************************************************************************)
(* The bulk operations.                                                    *)
(***************************************************************************)
\* the last call was this bulk operation, and the user confirmed
Done(c, o, op) == c.op = op /\ o.res = "ok"

\* countCompleted()
NumCompleted(list) == Cardinality({i \in 1..Len(list) : list[i].completed})

\* after holds the pending tasks of bef, as they were and in their order,
\* and nothing else
OnlyPendingKept(bef, after) ==
    /\ \A i \in 1..Len(after) : after[i] \in Range(bef) /\ ~after[i].completed
    /\ \A i \in 1..Len(bef) : ~bef[i].completed => bef[i] \in Range(after)
    /\ \A i, j \in 1..Len(after) :
          i < j => find(bef, after[i].id) < find(bef, after[j].id)

\* C14: a confirmed clearCompleted on a store with a completed task leaves
\* exactly the tasks that were pending, unchanged and in their order; no
\* task is completed afterwards, the total is the number of tasks that
\* were pending, the counts shown say so, and nextId is as before.
C14_ClearCompletedKeepsPending ==
    [][ /\ Done(call', out', "clearCompleted") =>
              /\ NumCompleted(tasks) >= 1
              /\ OnlyPendingKept(tasks, tasks')
              /\ NumCompleted(tasks') = 0
              /\ Len(tasks') = Len(tasks) - NumCompleted(tasks)
              /\ stats' = Counts(Len(tasks'), 0, Len(tasks'))
              /\ nextId' = nextId
        /\ Done(call', outMap', "clearCompleted") =>
              /\ NumCompleted(mapTasks) >= 1
              /\ OnlyPendingKept(mapTasks, mapTasks')
              /\ mapKeys(tasksMap') = [i \in 1..Len(tasksMap') |-> mapTasks'[i].id]
              /\ NumCompleted(mapTasks') = 0
              /\ Len(tasksMap') = Len(tasksMap) - NumCompleted(mapTasks)
              /\ statsMap' = Counts(Len(tasksMap'), 0, Len(tasksMap'))
              /\ nextIdMap' = nextIdMap
      ]_vars

\* the seed without its two completed tasks, 2 and 5
C14_Witness ==
    /\ ops = 1
    /\ Done(call, out, "clearCompleted") /\ Done(call, outMap, "clearCompleted")
    /\ Len(tasks) = 6 /\ Len(tasksMap) = 6
    /\ stats = Counts(6, 0, 6) /\ statsMap = Counts(6, 0, 6)

\* after is bef with every task completed, and no other difference
OnlyAllCompleted(bef, after) ==
    /\ Len(after) = Len(bef)
    /\ \A i \in 1..Len(bef) :
          /\ after[i].completed
          /\ after[i].id = bef[i].id
          /\ after[i].name = bef[i].name
          /\ after[i].date = bef[i].date

\* C15: a confirmed markAllAsCompleted on a store that is not empty makes
\* every task completed and changes nothing else: same ids, names and
\* dates in the same order, same number of tasks, same nextId; afterwards
\* the completed tasks are all the tasks, none is pending, and the counts
\* shown say so.
C15_MarkAllCompletesAll ==
    [][ /\ Done(call', out', "markAllAsCompleted") =>
              /\ Len(tasks) >= 1
              /\ OnlyAllCompleted(tasks, tasks')
              /\ nextId' = nextId
              /\ NumCompleted(tasks') = Len(tasks')
              /\ stats' = Counts(Len(tasks), Len(tasks), 0)
        /\ Done(call', outMap', "markAllAsCompleted") =>
              /\ Len(tasksMap) >= 1
              /\ OnlyAllCompleted(mapTasks, mapTasks')
              /\ mapKeys(tasksMap') = mapKeys(tasksMap)
              /\ nextIdMap' = nextIdMap
              /\ NumCompleted(mapTasks') = Len(tasksMap')
              /\ statsMap' = Counts(Len(tasksMap), Len(tasksMap), 0)
      ]_vars

\* the eight seed tasks, all marked as completed
C15_Witness ==
    /\ ops = 1
    /\ Done(call, out, "markAllAsCompleted")
    /\ Done(call, outMap, "markAllAsCompleted")
    /\ NumCompleted(tasks) = 8 /\ NumCompleted(mapTasks) = 8
    /\ stats = Counts(8, 8, 0) /\ statsMap = Counts(8, 8, 0)

\* the call c, made on the tasks bef, does not meet its precondition
Unmet(c, bef) ==
    \/ c.op \in {"markAllAsCompleted", "clearAll"} /\ Len(bef) = 0
    \/ c.op = "clearCompleted" /\ NumCompleted(bef) = 0

\* what the call c reports when its precondition is not met
UnmetError(c) ==
    IF c.op = "clearCompleted" THEN "NothingToClear" ELSE "EmptyStore"

\* C16: markAllAsCompleted and clearAll on an empty store report
\* EmptyStore, clearCompleted on a store without a completed task reports
\* NothingToClear; none of them asks for confirmation, and the tasks and
\* nextId stay as they are (clearAll on an empty store leaves nextId).
C16_BulkPreconditionsAbort ==
    [][ /\ Unmet(call', tasks) =>
              /\ out'.res = UnmetError(call') /\ ~out'.asked
              /\ tasks' = tasks /\ nextId' = nextId
        /\ Unmet(call', mapTasks) =>
              /\ outMap'.res = UnmetError(call') /\ ~outMap'.asked
              /\ tasksMap' = tasksMap /\ nextIdMap' = nextIdMap
      ]_vars

\* clearAll on a store emptied by markAllAsCompleted and clearCompleted,
\* where nextId is still 9
C16_Witness ==
    /\ call.op = "clearAll"
    /\ out.res = "EmptyStore" /\ outMap.res = "EmptyStore"
    /\ tasks = <<>> /\ tasksMap = <<>>
    /\ nextId = 9 /\ nextIdMap = 9

\* the handlers that ask for confirmation
Confirmed == {"removeTask", "markAllAsCompleted", "clearCompleted", "clearAll"}

\* the last call asked for confirmation and the user declined
Declined(c, o) == c.op \in Confirmed /\ o.asked /\ ~c.ok

\* C17: when the user declines the confirmation of removeTask,
\* markAllAsCompleted, clearCompleted or clearAll, the call is given up and
\* the tasks and nextId are what they were before it.
C17_DeclinedChangesNothing ==
    [][ /\ Declined(call', out') =>
              /\ out'.res = "declined"
              /\ tasks' = tasks /\ nextId' = nextId
        /\ Declined(call', outMap') =>
              /\ outMap'.res = "declined"
              /\ tasksMap' = tasksMap /\ nextIdMap' = nextIdMap
      ]_vars

\* clearAll declined on the seed
C17_Witness ==
    /\ Declined(call, out) /\ Declined(call, outMap)
    /\ call.op = "clearAll"
    /\ tasks = init /\ tasksMap = initMap(<<>>)
    /\ nextId = 9 /\ nextIdMap = 9

(***************************************************************************)
(* The result of the query.                                                *)
(***************************************************************************)
\* the two cases of every letter
BothCases == {{UpperCase[k], LowerCase[k]} : k \in 1..26}

\* the same character, or the two cases of the same letter
SameLetter(a, b) == a = b \/ {a, b} \in BothCases

\* s holds the text sub at some place, whatever the case of the letters
ContainsIgnoringCase(s, sub) ==
    \/ sub = <<>>
    \/ \E i \in 0..(Len(s) - Len(sub)) :
          \A k \in 1..Len(sub) : SameLetter(s[i + k], sub[k])

\* the task is one the query q asks for
Wanted(task, q) ==
    /\ CASE q.statusFilter = "all" -> TRUE
          [] q.statusFilter = "pending" -> ~task.completed
          [] q.statusFilter = "completed" -> task.completed
    /\ ContainsIgnoringCase(task.name, q.searchInput)

\* the list v holds the tasks of the store that q asks for, each once, and
\* nothing else
ExactlyWanted(store, v, q) ==
    LET wanted == {task \in Range(store) : Wanted(task, q)}
    IN  Range(v) = wanted /\ Len(v) = Cardinality(wanted)

\* C18: the query returns exactly the tasks of the store that meet the
\* status filter ("all": every task, "pending": not completed,
\* "completed": completed) and whose name contains the search text, both
\* taken in lower case, each task once; with "pending" and an empty
\* search text these are all the tasks that are not completed.
C18_QueryReturnsExactlyMatching ==
    [][ call'.op = "render" =>
            /\ ExactlyWanted(tasks, view', query')
            /\ ExactlyWanted(mapTasks, viewMap', query')
      ]_vars

\* the added task "X" found by the search for "X" among the pending tasks
\* of a store that has completed tasks as well
C18_Witness ==
    /\ call.op = "render"
    /\ query.statusFilter = "pending" /\ query.searchInput = <<"X">>
    /\ Len(view) = 1 /\ view[1].name = <<"X">>
    /\ Len(viewMap) = 1 /\ viewMap[1].name = <<"X">>
    /\ NumCompleted(tasks) = 2 /\ NumCompleted(mapTasks) = 2

\* the tasks of v come in the order they have in the store
InStoreOrder(store, v) ==
    \A i, j \in 1..Len(v) :
        i < j => find(store, v[i].id) < find(store, v[j].id)

\* C19: the query reads only: whatever the status filter, the search text
\* and the sort key, the tasks, their order in the store and nextId are
\* after the query what they were before it; so a query with a sort key
\* that render() does not know returns the tasks in the order of the
\* store, also after queries that sorted.
C19_QueryIsPureRead ==
    [][ call'.op = "render" =>
            /\ tasks' = tasks /\ nextId' = nextId
            /\ tasksMap' = tasksMap /\ nextIdMap' = nextIdMap
            /\ query'.sortBy = "none" =>
                  /\ InStoreOrder(tasks, view')
                  /\ InStoreOrder(mapTasks, viewMap')
      ]_vars

\* the seed queried by name: the list returned starts with task 4, "MAMbo
\* - Museo d'Arte Moderna di Bologna", and the store still starts with
\* task 1
C19_Witness ==
    /\ call.op = "render" /\ query.sortBy = "name"
    /\ Len(view) = 8 /\ view[1].id = 4
    /\ Len(viewMap) = 8 /\ viewMap[1].id = 4
    /\ tasks = init /\ tasksMap = initMap(<<>>)

\* in v no completed task comes before a pending one, and two tasks that
\* are both pending or both completed come in the order of the store
PendingFirstStable(store, v) ==
    \A i, j \in 1..Len(v) :
        i < j =>
            /\ ~(v[i].completed /\ ~v[j].completed)
            /\ v[i].completed = v[j].completed
                  => find(store, v[i].id) < find(store, v[j].id)

\* C20: with the sort key "status" the query lists every pending task
\* before every completed task, and tasks with the same completed value in
\* the order they have in the store.
C20_StatusSortPendingFirstStable ==
    [][ (call'.op = "render" /\ query'.sortBy = "status") =>
            /\ PendingFirstStable(tasks, view')
            /\ PendingFirstStable(mapTasks, viewMap')
      ]_vars

\* the seed queried by status: the six pending tasks in store order, then
\* the completed tasks 2 and 5
C20_Witness ==
    /\ call.op = "render" /\ query = Controls("all", <<>>, "status")
    /\ [i \in 1..Len(view) |-> view[i].id] = <<1, 3, 4, 6, 7, 8, 2, 5>>
    /\ [i \in 1..Len(viewMap) |-> viewMap[i].id] = <<1, 3, 4, 6, 7, 8, 2, 5>>

(***************************************************************************)
(* The two scripts side by side.                                           *)
(***************************************************************************)
\* C21 (as claimed): after every step the array script and the Map script
\* hold the same tasks (id, name, date, completed) in the same order and
\* the same nextId, and the last query returned the same list in both.
C21_VariantsEquivalent ==
    /\ mapTasks = tasks
    /\ mapKeys(tasksMap) = [i \in 1..Len(tasks) |-> tasks[i].id]
    /\ nextIdMap = nextId
    /\ viewMap = view

\* the ids, names and completed flags of a list of tasks, in its order
Undated(list) ==
    [i \in 1..Len(list) |->
        [id |-> list[i].id, name |-> list[i].name,
         completed |-> list[i].completed]]

\* what the two scripts do agree on: everything but the dates, and but the
\* order of a list sorted by date
AgreeButDates ==
    /\ Undated(mapTasks) = Undated(tasks)
    /\ nextIdMap = nextId
    /\ [out EXCEPT !.old = NoTask] = [outMap EXCEPT !.old = NoTask]
    /\ stats = statsMap
    /\ query.sortBy # "date" => Undated(viewMap) = Undated(view)

(***************************************************************************)
(* init().                                                                 *)
(***************************************************************************)
\* the list holds the seeds and nothing else: as many tasks as seeds, with
\* the ids 1, 2, ... in the order of the seeds and their name, date and
\* completed flag
ExactlySeeds(list, seeds) ==
    /\ Len(list) = Len(seeds)
    /\ \A i \in 1..Len(seeds) :
          /\ list[i].id = i
          /\ list[i].name = seeds[i].name
          /\ list[i].date = seeds[i].date
          /\ list[i].completed = seeds[i].completed

\* C22 (as claimed): whatever the scripts held before, after init() they
\* hold exactly the seeds, with the ids 1..N in seed order, and nextId is
\* N + 1.
C22_InitReplacesPriorState ==
    [][ call'.op = "init" =>
            /\ ExactlySeeds(tasks', initialMuseums)
            /\ nextId' = Len(initialMuseums) + 1
            /\ ExactlySeeds(mapTasks', initialMuseumsMap)
            /\ mapKeys(tasksMap') = [i \in 1..Len(initialMuseumsMap) |-> i]
            /\ nextIdMap' = Len(initialMuseumsMap) + 1
      ]_vars

(***************************************************************************)
(* Calls for an id that is not in the store.                               *)
(***************************************************************************)
\* the call c is toggleDone or editTask for an id that bef does not hold
Missed(c, bef) ==
    c.op \in {"toggleDone", "editTask"} /\ Get(bef, c.id) = NoTask

\* C23: toggleDone and editTask for an id that is not in the store do
\* nothing: the tasks and nextId stay as they are, no task is created, and
\* editTask asks for no name and no date (so none is applied); the miss
\* is not shown to the user.
C23_AbsentIdIsNoOp ==
    [][ /\ Missed(call', tasks) =>
              /\ tasks' = tasks /\ nextId' = nextId
              /\ out'.res = "NotFound"
              /\ out'.prompts = 0 /\ ~out'.asked
        /\ Missed(call', mapTasks) =>
              /\ tasksMap' = tasksMap /\ nextIdMap' = nextIdMap
              /\ outMap'.res = "NotFound"
              /\ outMap'.prompts = 0 /\ ~outMap'.asked
      ]_vars

\* editTask of id 9 on the seed, the user ready to answer " X " and
\* "2025-01-01"
C23_Witness ==
    /\ call.op = "editTask" /\ call.id = 9
    /\ call.name = PaddedX /\ call.date = D20250101
    /\ out.res = "NotFound" /\ outMap.res = "NotFound"
    /\ tasks = init /\ tasksMap = initMap(<<>>)

(***************************************************************************)
(* window.nextId.                                                          *)
(***************************************************************************)
\* the handlers that never write window.nextId
KeepNextId == {"removeTask", "clearCompleted", "toggleDone", "editTask",
               "markAllAsCompleted", "render"}

\* one call, seen from one script: c the call, o what it reported, bef the
\* tasks before it, nid and nidAfter window.nextId before and after it
NextIdMoves(c, o, bef, nid, nidAfter) ==
    /\ nidAfter # nid =>
          \/ AddedOk(c, o) /\ nidAfter = nid + 1
          \/ Done(c, o, "clearAll") /\ Len(bef) > 0 /\ nidAfter = 1
    /\ AddedOk(c, o) => (nidAfter = nid + 1 /\ o.newId = nid)
    /\ c.op \in KeepNextId => nidAfter = nid
    /\ (AddedOk(c, o) /\ Len(bef) = 0 /\ nid > 1) => o.newId # 1

\* C24: nextId is reset only by a confirmed clearAll on a store that is
\* not empty; a successful addTask raises it by exactly 1; removeTask,
\* clearCompleted, toggleDone, editTask, markAllAsCompleted and the query
\* leave it; so a store emptied without clearAll keeps its nextId above 1
\* and the next task added does not get the id 1.
C24_NextIdResetOnlyByClearAll ==
    [][ /\ NextIdMoves(call', out', tasks, nextId, nextId')
        /\ NextIdMoves(call', outMap', mapTasks, nextIdMap, nextIdMap')
      ]_vars

\* the seed marked as completed and cleared, then a task added: it is the
\* only task and has the id 9
C24_Witness ==
    /\ AddedOk(call, out) /\ AddedOk(call, outMap)
    /\ Len(tasks) = 1 /\ tasks[1].id = 9 /\ nextId = 10
    /\ Len(tasksMap) = 1 /\ tasksMap[1].key = 9 /\ nextIdMap = 10

\* nid is a positive integer above the id of every task of the list
AboveEveryId(list, nid) ==
    /\ nid \in Nat /\ nid >= 1
    /\ \A i \in 1..Len(list) : list[i].id \in Nat /\ list[i].id < nid

\* a successful addTask found no task under the id it gave out, kept every
\* task there was as it was, and put exactly one more after them
AddedFresh(c, o, bef, aft) ==
    AddedOk(c, o) =>
        /\ Get(bef, o.newId) = NoTask
        /\ Len(aft) = Len(bef) + 1
        /\ SubSeq(aft, 1, Len(bef)) = bef
        /\ aft[Len(aft)].id = o.newId
        /\ UniqueIds(aft)

\* C25: in every state from the page load on, nextId is a positive integer
\* above the id of every task in the store (in the Map script, above every
\* key, each key being its task's id), so that a successful addTask never
\* overwrites or duplicates a task that is there.
C25_NextIdAboveEveryId ==
    /\ [](/\ AboveEveryId(tasks, nextId)
          /\ AboveEveryId(mapTasks, nextIdMap)
          /\ \A i \in 1..Len(tasksMap) :
                tasksMap[i].key = tasksMap[i].value.id)
    /\ [][ /\ AddedFresh(call', out', tasks, tasks')
            /\ AddedFresh(call', outMap', mapTasks, mapTasks') ]_vars

\* a task added, removed, and another added: the second has the id 10, no
\* task has the id 9, and nextId is 11
C25_Witness ==
    /\ AddedOk(call, out) /\ AddedOk(call, outMap)
    /\ out.newId = 10 /\ outMap.newId = 10
    /\ Len(tasks) = 9 /\ Get(tasks, 9) = NoTask /\ nextId = 11
    /\ Len(tasksMap) = 9 /\ Get(mapTasks, 9) = NoTask /\ nextIdMap = 11

=============================================================================
